---- MODULE Spec2Model ----
(***************************************************************************)
(* State machine of pasta.model.Model (src/pasta/model.py): the component  *)
(* registry, the optional noise model, the calibration window, the flat    *)
(* parameter table, and the calls that read and write them.                *)
(*                                                                         *)
(* Timestamps are whole days.  A flat parameter vector is described by its *)
(* length; an entry is named by its position, 1-based (position i is the   *)
(* Python index i-1).  An optional Python value is <<>> for None (or for   *)
(* an attribute that was never assigned) and <<x>> for the value x.        *)
(***************************************************************************)
EXTENDS Integers, Sequences, FiniteSets, TLC

\* ---------------------------------------------------------------- bounds
MaxT == 3               \* observations lie on the days 0..MaxT
MaxNparam == 2          \* the widest component owns MaxNparam parameters
MaxNoiseNparam == 1     \* a noise model owns 1..MaxNoiseNparam parameters

\* names the accessors are asked for: the registered ones and one never registered
LookupNames == {"A", "B", "missing"}
NoiseName == "noise"
Days == 0..MaxT
ArgDays == (0 - 1)..(MaxT + 1)            \* explicit tmin / tmax arguments
Booleans == {TRUE, FALSE}

None == <<>>
Some(x) == <<x>>
OptDays == {None} \cup {Some(t) : t \in ArgDays}
\* the observed series a model is built on: with a gap, and equidistant
ObservedChoices == {{0, MaxT}, Days}

VARIABLES
    oseries,        \* set of observed timestamps (self.oseries.index)
    tseriesdict,    \* sequence of [name, nparam], in insertion order
    noisemodel,     \* None or Some([name, nparam])
    tmin, tmax,     \* None or Some(day): the stored window
    parameters,     \* None (attribute unset) or Some(table)
    nparam,         \* None (attribute unset) or Some(count)
    solved,         \* a solve call has run to completion
    last            \* the most recent call: arguments, outcome, what it handed on

vars == <<oseries, tseriesdict, noisemodel, tmin, tmax, parameters, nparam,
          solved, last>>

\* ------------------------------------------------------------- helpers
MinOf(S) == CHOOSE x \in S : \A y \in S : x <= y
MaxOf(S) == CHOOSE x \in S : \A y \in S : x >= y
Smaller(a, b) == IF a <= b THEN a ELSE b
Larger(a, b) == IF a >= b THEN a ELSE b

\* parameters[start:stop] for 0 <= start <= stop, as 1-based positions
PySlice(len, start, stop) ==
    [i \in 1..Larger(0, Smaller(stop, len) - Smaller(start, len)) |->
        Smaller(start, len) + i]

\* parameters[-n:] for n >= 0, as 1-based positions (-0 is 0: the whole vector)
PyTail(len, n) ==
    IF n = 0 THEN PySlice(len, 0, len)
    ELSE PySlice(len, Larger(len - n, 0), len)

Range(s) == {s[i] : i \in DOMAIN s}

\* ------------------------------------------------------- observed series
oMin == MinOf(oseries)                    \* oseries.index.min(), index[0]
oMax == MaxOf(oseries)                    \* oseries.index.max(), index[-1]
\* oseries[lo:hi].index: label slicing, both ends included
Window(lo, hi) == {t \in oseries : lo <= t /\ t <= hi}

\* ------------------------------------------------------------- registry
HasName(d, n) == \E i \in DOMAIN d : d[i].name = n
IndexOf(d, n) == CHOOSE i \in DOMAIN d : d[i].name = n
\* OrderedDict.__setitem__: a known key keeps its place, a new key goes last
Put(d, c) ==
    IF HasName(d, c.name) THEN [d EXCEPT ![IndexOf(d, c.name)] = c]
    ELSE Append(d, c)
Keys(d) == [i \in DOMAIN d |-> d[i].name]

RECURSIVE SumUpTo(_, _)
SumUpTo(d, k) == IF k = 0 THEN 0 ELSE SumUpTo(d, k - 1) + d[k].nparam
\* sum(ts.nparam for ts in self.tseriesdict.values())
ComponentNparam == SumUpTo(tseriesdict, Len(tseriesdict))

\* ------------------------------------------------------ parameter values
NaN == <<"nan", 0, 0>>
FragInitial(k) == <<"p0", 0, k>>          \* a fragment's own initial value
Optimal(i) == <<"opt", 0, i>>            \* entry i of the solver's result

\* ts.parameters: one row per parameter, labelled per owner
Fragment(c) ==
    [k \in 1..c.nparam |->
        [label |-> <<c.name, k>>, name |-> c.name,
         initial |-> FragInitial(k), optimal |-> NaN]]

RECURSIVE ComponentRows(_)
ComponentRows(k) ==
    IF k = 0 THEN <<>>
    ELSE ComponentRows(k - 1) \o Fragment(tseriesdict[k])

NoiseIncludedMut(noise) == noisemodel # None
\* line 140: if self.noisemodel and noise
NoiseIncluded(noise) == noisemodel # None /\ noise

\* lines 136-141: the table rebuilt from the fragments
BuildTable(noise) ==
    ComponentRows(Len(tseriesdict)) \o
    (IF NoiseIncluded(noise) THEN Fragment(noisemodel[1]) ELSE <<>>)

\* lines 133-135: self.nparam
CountNparam(noise) ==
    ComponentNparam + (IF noisemodel # None THEN noisemodel[1].nparam ELSE 0)

HasLabel(t, l) == \E i \in DOMAIN t : t[i].label = l
RowOf(t, l) == t[CHOOSE i \in DOMAIN t : t[i].label = l]
AlignInitialMut(new, old) == new
\* line 143: self.parameters.initial = optimal (a Series: aligned on the labels)
AlignInitial(new, old) ==
    [i \in DOMAIN new |->
        [new[i] EXCEPT !.initial =
            IF HasLabel(old, new[i].label) THEN RowOf(old, new[i].label).optimal
            ELSE NaN]]

\* -------------------------------------------------------------- window
Given(a, dflt) == IF a = None THEN dflt ELSE a[1]
Inside(a) == a = None \/ (a[1] >= oMin /\ a[1] <= oMax)
StoredTminMut(a) == oMin
\* lines 204-207: the tmin that is checked and stored
StoredTmin(a) == Given(a, oMin)
\* lines 210-213
StoredTmax(b) == Given(b, oMax)
\* lines 208-218: all four assertions pass
WindowAccepted(a, b) ==
    /\ Inside(a)
    /\ Inside(b)
    /\ StoredTmax(b) > StoredTmin(a)
    /\ Window(StoredTmin(a), StoredTmax(b)) # {}

\* ------------------------------------------------------------ simulate
OffsetMut(k) == 0
\* istart when the k-th component is reached (lines 94, 97)
Offset(k) == SumUpTo(tseriesdict, k - 1)
\* line 96: parameters[istart: istart + ts.nparam] for every component
ComponentSlices(len) ==
    [k \in DOMAIN tseriesdict |->
        PySlice(len, Offset(k), Offset(k) + tseriesdict[k].nparam)]

\* lines 82-98.  p: None or Some(length of the vector passed)
SimulateCall(p, a, b) ==
    LET lo == IF a = None THEN tmin ELSE a
        hi == IF b = None THEN tmax ELSE b
    IN  IF lo = None \/ hi = None
        THEN [outcome |-> "AssertionError", slices |-> <<>>]
        ELSE IF p = None /\ parameters = None
        THEN [outcome |-> "AttributeError", slices |-> <<>>]
        ELSE [outcome |-> "ok",
              slices |-> ComponentSlices(IF p = None THEN Len(parameters[1])
                                         ELSE p[1])]

\* ----------------------------------------------------------- residuals
NoiseAppliedMut(noise) == noisemodel # None
\* line 117: if noise and (self.noisemodel is not None)
NoiseApplied(noise) == noise /\ noisemodel # None

\* lines 105-124
ResidualsCall(p, a, b, noise) ==
    IF p = None /\ parameters = None
    THEN [outcome |-> "AttributeError", slices |-> <<>>, noiseSlice |-> None,
          noiseCalls |-> 0]
    ELSE LET len == IF p = None THEN Len(parameters[1]) ELSE p[1]
             sim == SimulateCall(Some(len), Some(Given(a, oMin)),
                                 Some(Given(b, oMax)))
         IN  [outcome |-> sim.outcome, slices |-> sim.slices,
              noiseSlice |-> IF NoiseApplied(noise)
                             THEN Some(PyTail(len, noisemodel[1].nparam))
                             ELSE None,
              noiseCalls |-> IF NoiseApplied(noise) THEN 1 ELSE 0]

\* ------------------------------------------------------ the call record
Blank ==
    [op |-> "new", outcome |-> "ok", tmin |-> None, tmax |-> None,
     noise |-> FALSE, initial |-> FALSE, params |-> None, name |-> "",
     slices |-> <<>>, noiseSlice |-> None, noiseCalls |-> 0, printed |-> None]

\* ---------------------------------------------------------------- Init
\* lines 39-48; self.parameters and self.nparam are not assigned
Start(observed) ==
    /\ oseries \in observed
    /\ tseriesdict = <<>>
    /\ noisemodel = None
    /\ tmin = None
    /\ tmax = None
    /\ parameters = None
    /\ nparam = None
    /\ solved = FALSE
    /\ last = Blank

\* a model built on a daily series
Init == Start({Days})
\* a model built on a daily series or on one with a gap
InitWindow == Start(ObservedChoices)

\* ------------------------------------------------------------- actions
\* lines 50-55
AddTseriesCall(c) ==
    /\ tseriesdict' = Put(tseriesdict, c)
    /\ last' = [Blank EXCEPT !.op = "add_tseries", !.name = c.name]
    /\ UNCHANGED <<oseries, noisemodel, tmin, tmax, parameters, nparam, solved>>

\* lines 57-62
AddNoisemodelCall(np) ==
    /\ noisemodel' = Some([name |-> NoiseName, nparam |-> np])
    /\ last' = [Blank EXCEPT !.op = "add_noisemodel"]
    /\ UNCHANGED <<oseries, tseriesdict, tmin, tmax, parameters, nparam, solved>>

\* lines 185-221
SetTminTmaxCall(a, b) ==
    /\ IF WindowAccepted(a, b)
       THEN /\ tmin' = Some(StoredTmin(a))
            /\ tmax' = Some(StoredTmax(b))
            /\ last' = [Blank EXCEPT !.op = "set_tmin_tmax", !.tmin = a,
                                     !.tmax = b]
       ELSE /\ UNCHANGED <<tmin, tmax>>
            /\ last' = [Blank EXCEPT !.op = "set_tmin_tmax", !.tmin = a,
                                     !.tmax = b, !.outcome = "AssertionError"]
    /\ UNCHANGED <<oseries, tseriesdict, noisemodel, parameters, nparam, solved>>

\* lines 130-143
InitializeCall(initial, noise) ==
    /\ IF ~initial /\ parameters = None
       THEN /\ UNCHANGED <<parameters, nparam>>
            /\ last' = [Blank EXCEPT !.op = "initialize", !.initial = initial,
                                     !.noise = noise,
                                     !.outcome = "AttributeError"]
       ELSE /\ nparam' = Some(CountNparam(noise))
            /\ parameters' =
                 Some(IF initial THEN BuildTable(noise)
                      ELSE AlignInitial(BuildTable(noise), parameters[1]))
            /\ last' = [Blank EXCEPT !.op = "initialize", !.initial = initial,
                                     !.noise = noise]
    /\ UNCHANGED <<oseries, tseriesdict, noisemodel, tmin, tmax, solved>>

\* the solver's result: an optimal vector as long as the table
OptimalParams(len) == [i \in 1..len |-> Optimal(i)]
\* line 179: self.parameters.optimal = fit.optimal_params
WithOptimal(t, v) == [i \in DOMAIN t |-> [t[i] EXCEPT !.optimal = v[i]]]

\* lines 166-181.  The solver evaluates the residuals of a candidate vector as
\* long as the table, with the noise flag of the call.
SolveCall(a, b, noise, initial) ==
    LET rec == [Blank EXCEPT !.op = "solve", !.noise = noise,
                             !.initial = initial]
    IN
    /\ IF ~WindowAccepted(a, b)
       THEN /\ UNCHANGED <<tmin, tmax, parameters, nparam, solved>>
            /\ last' = [rec EXCEPT !.outcome = "AssertionError"]
       ELSE /\ tmin' = Some(StoredTmin(a))
            /\ tmax' = Some(StoredTmax(b))
            /\ IF ~initial /\ parameters = None
               THEN /\ UNCHANGED <<parameters, nparam, solved>>
                    /\ last' = [rec EXCEPT !.outcome = "AttributeError"]
               ELSE LET table == IF initial THEN BuildTable(noise)
                                 ELSE AlignInitial(BuildTable(noise),
                                                   parameters[1])
                        len == Len(table)
                    IN  /\ nparam' = Some(CountNparam(noise))
                        /\ parameters' =
                             Some(WithOptimal(table, OptimalParams(len)))
                        /\ solved' = TRUE
                        /\ last' =
                             [rec EXCEPT
                                !.params = Some(len),
                                !.slices = ComponentSlices(len),
                                !.noiseSlice =
                                    IF NoiseApplied(noise)
                                    THEN Some(PyTail(len, noisemodel[1].nparam))
                                    ELSE None,
                                !.noiseCalls =
                                    IF NoiseApplied(noise) THEN 1 ELSE 0]
    /\ UNCHANGED <<oseries, tseriesdict, noisemodel>>

\* lines 64-98
SimulateOp(p, a, b) ==
    LET r == SimulateCall(p, a, b)
    IN  /\ last' = [Blank EXCEPT !.op = "simulate", !.params = p, !.tmin = a,
                                 !.tmax = b, !.outcome = r.outcome,
                                 !.slices = r.slices]
        /\ UNCHANGED <<oseries, tseriesdict, noisemodel, tmin, tmax,
                       parameters, nparam, solved>>

\* lines 100-124 (op "residuals") and 126-128 (op "sse", which only calls it)
ResidualsOp(op, p, a, b, noise) ==
    LET r == ResidualsCall(p, a, b, noise)
    IN  /\ last' = [Blank EXCEPT !.op = op, !.params = p, !.noise = noise,
                                 !.outcome = r.outcome, !.slices = r.slices,
                                 !.noiseSlice = r.noiseSlice,
                                 !.noiseCalls = r.noiseCalls]
        /\ UNCHANGED <<oseries, tseriesdict, noisemodel, tmin, tmax, parameters,
                       nparam, solved>>

\* positions of the rows of table t whose name column is n
RowsNamed(t, n) == {i \in DOMAIN t : t[i].name = n}

\* lines 226-248: the three accessors share one body
AccessorOp(op, n) ==
    /\ last' =
         IF parameters = None
         THEN [Blank EXCEPT !.op = op, !.name = n, !.outcome = "AttributeError"]
         ELSE IF ~HasName(tseriesdict, n)
         THEN [Blank EXCEPT !.op = op, !.name = n, !.outcome = "None",
                            !.printed = Some(Keys(tseriesdict))]
         ELSE [Blank EXCEPT !.op = op, !.name = n,
                            !.params =
                                Some(Cardinality(RowsNamed(parameters[1], n)))]
    /\ UNCHANGED <<oseries, tseriesdict, noisemodel, tmin, tmax, parameters,
                   nparam, solved>>

\* ------------------------------------------------------ inputs of the calls
\* parameter vectors a caller passes: none (the stored optimal column), or one
\* as long as the components' rows, as the rows with the noise model's, or as
\* the table that is stored
VecLens ==
    {ComponentNparam, CountNparam(TRUE)} \cup
    (IF parameters = None THEN {} ELSE {Len(parameters[1])})
OptVecs == {None} \cup {Some(n) : n \in VecLens}
\* windows passed to simulate, residuals and sse: none, or the observed extent
OptWindows == {<<None, None>>, <<Some(oMin), Some(oMax)>>}
\* windows passed to set_tmin_tmax and solve when the parameters are studied:
\* none, the observed extent, and an empty one that is refused
FewWindows == OptWindows \cup {<<Some(oMin), Some(oMin)>>}
\* the components that get registered: a narrow one and a wide one
Components == {[name |-> "A", nparam |-> 1], [name |-> "B", nparam |-> MaxNparam]}

AddTseries == \E c \in Components : AddTseriesCall(c)
AddNoisemodel == \E np \in 1..MaxNoiseNparam : AddNoisemodelCall(np)
SetTminTmax == \E w \in FewWindows : SetTminTmaxCall(w[1], w[2])
Initialize == \E initial \in Booleans, noise \in Booleans :
                  InitializeCall(initial, noise)
Solve == \E w \in FewWindows, noise \in Booleans, initial \in Booleans :
             SolveCall(w[1], w[2], noise, initial)
Simulate == \E p \in OptVecs, w \in OptWindows : SimulateOp(p, w[1], w[2])
Residuals == \E p \in OptVecs, w \in OptWindows, noise \in Booleans :
                 ResidualsOp("residuals", p, w[1], w[2], noise)
Sse == \E p \in OptVecs, w \in OptWindows, noise \in Booleans :
           ResidualsOp("sse", p, w[1], w[2], noise)
GetResponse == \E n \in LookupNames : AccessorOp("get_response", n)
GetResponseFunction == \E n \in LookupNames : AccessorOp("get_response_function", n)
GetStress == \E n \in LookupNames : AccessorOp("get_stress", n)

Next ==
    \/ AddTseries
    \/ AddNoisemodel
    \/ SetTminTmax
    \/ Initialize
    \/ Solve
    \/ Simulate
    \/ Residuals
    \/ Sse
    \/ GetResponse
    \/ GetResponseFunction
    \/ GetStress

Spec == Init /\ [][Next]_vars

\* The window calls with every explicit bound, on a registry of one component
OneComponent == {[name |-> "A", nparam |-> 1]}
AddTseriesOne == \E c \in OneComponent : AddTseriesCall(c)
SetTminTmaxAny == \E a \in OptDays, b \in OptDays : SetTminTmaxCall(a, b)
SolveAny == \E a \in OptDays, b \in OptDays, noise \in Booleans,
               initial \in Booleans : SolveCall(a, b, noise, initial)

NextWindow ==
    \/ AddTseriesOne
    \/ SetTminTmaxAny
    \/ Initialize
    \/ SolveAny
    \/ Simulate

SpecWindow == InitWindow /\ [][NextWindow]_vars

\* ------------------------------------------------------------- claims
Labels(t) == [i \in DOMAIN t |-> t[i].label]
\* the stored table has the rows a rebuild from the registry would give it
TableCurrent ==
    /\ parameters # None
    /\ \E n \in Booleans : Labels(parameters[1]) = Labels(BuildTable(n))
WindowCalls == {"set_tmin_tmax"}
ResidualCalls == {"residuals", "sse"}
TableCalls == {"initialize", "solve"}
Accessors == {"get_response", "get_response_function", "get_stress"}

\* C1: set_tmin_tmax(tmin, tmax) with observed_min <= tmin < tmax <=
\* observed_max and at least one observation in [tmin, tmax] succeeds, and the
\* stored window is then exactly (tmin, tmax).
C1_ValidWindowStored ==
    (/\ last.op \in WindowCalls
     /\ last.tmin # None
     /\ last.tmax # None
     /\ oMin <= last.tmin[1]
     /\ last.tmin[1] < last.tmax[1]
     /\ last.tmax[1] <= oMax
     /\ Window(last.tmin[1], last.tmax[1]) # {})
    => (last.outcome = "ok" /\ tmin = last.tmin /\ tmax = last.tmax)

\* an explicit window strictly inside the extent of a series with a gap was
\* stored over the window an earlier solve had stored
C1_Witness ==
    /\ last.op \in WindowCalls
    /\ last.outcome = "ok"
    /\ oseries = {0, MaxT}
    /\ last.tmin = Some(1)
    /\ last.tmax = Some(MaxT)
    /\ tmin = Some(1)
    /\ tmax = Some(MaxT)
    /\ solved

\* C2: set_tmin_tmax with an explicit tmin below the first observation or an
\* explicit tmax above the last one fails with a ValidationError.
C2_OutsideExtentIsValidationError ==
    (/\ last.op \in WindowCalls
     /\ \/ (last.tmin # None /\ last.tmin[1] < oMin)
        \/ (last.tmax # None /\ last.tmax[1] > oMax))
    => last.outcome = "ValidationError"

\* C3: after initialize(initial=True, noise=n) the table has as many rows as
\* the registered components have parameters, plus the noise model's exactly
\* when n is true and a noise model is configured.
C3_RowCount ==
    (last.op = "initialize" /\ last.initial /\ last.outcome = "ok")
    => /\ parameters # None
       /\ Len(parameters[1]) =
            ComponentNparam +
            (IF last.noise /\ noisemodel # None THEN noisemodel[1].nparam ELSE 0)

\* two components and a noise model, initialized with the noise switched off
C3_Witness ==
    /\ last.op = "initialize"
    /\ last.initial
    /\ ~last.noise
    /\ last.outcome = "ok"
    /\ noisemodel # None
    /\ Len(tseriesdict) = 2
    /\ Len(parameters[1]) = ComponentNparam

\* C4: residuals(noise=False) and sse(noise=False) never call the noise model.
C4_NoiseOffNeverFilters ==
    (last.op \in ResidualCalls /\ ~last.noise)
    => (last.noiseCalls = 0 /\ last.noiseSlice = None)

\* sse(noise=False) returned on a model whose solve had used the noise model
C4_Witness ==
    /\ last.op = "sse"
    /\ ~last.noise
    /\ last.outcome = "ok"
    /\ noisemodel # None
    /\ solved
    /\ parameters # None
    /\ RowsNamed(parameters[1], NoiseName) # {}

\* C5: an accessor asked for a name that is not registered fails and never
\* returns normally, be it with None (any error raised is taken for the
\* UnknownComponentError of the claim).
Raised == {"AssertionError", "AttributeError"}
C5_UnknownNameNeverReturns ==
    (last.op \in Accessors /\ ~HasName(tseriesdict, last.name))
    => last.outcome \in Raised

\* C6: simulate without a parameter vector, on a model no solve has completed
\* on, fails and never returns a series (any error raised is taken for the
\* UnsolvedModelError of the claim).
C6_UnsolvedNeverReturns ==
    (last.op = "simulate" /\ last.params = None /\ ~solved)
    => last.outcome \in Raised

\* C7: simulate on a vector that matches the table hands the k-th component
\* the nparam consecutive entries that start after those of the components
\* before it: the component's own rows of the table; the slices are disjoint,
\* cover the components' rows and hold no row of the noise model.
C7_SlicesFollowTable ==
    (/\ last.op = "simulate"
     /\ last.outcome = "ok"
     /\ TableCurrent
     /\ (last.params = None \/ last.params = Some(Len(parameters[1]))))
    => /\ DOMAIN last.slices = DOMAIN tseriesdict
       /\ \A k \in DOMAIN tseriesdict :
            /\ last.slices[k] =
                 [i \in 1..tseriesdict[k].nparam |->
                    SumUpTo(tseriesdict, k - 1) + i]
            /\ Range(last.slices[k]) =
                 RowsNamed(parameters[1], tseriesdict[k].name)
       /\ \A j, k \in DOMAIN tseriesdict :
            j # k => Range(last.slices[j]) \cap Range(last.slices[k]) = {}
       /\ UNION {Range(last.slices[k]) : k \in DOMAIN tseriesdict} =
            1..ComponentNparam
       /\ \A k \in DOMAIN tseriesdict : \A i \in Range(last.slices[k]) :
            parameters[1][i].name # NoiseName

\* both components simulated on a passed vector that ends in noise entries
C7_Witness ==
    /\ last.op = "simulate"
    /\ last.outcome = "ok"
    /\ TableCurrent
    /\ Len(tseriesdict) = 2
    /\ RowsNamed(parameters[1], NoiseName) # {}
    /\ last.params = Some(Len(parameters[1]))
    /\ last.slices[2] # <<>>

\* C8: initialize(noise=n) sets nparam to the components' parameter count,
\* plus the noise model's only if a noise model is present and n is true.
C8_NparamCountsEnabledNoise ==
    (last.op = "initialize" /\ last.outcome = "ok")
    => nparam =
         Some(ComponentNparam +
              (IF last.noise /\ noisemodel # None THEN noisemodel[1].nparam
               ELSE 0))

\* C9: initialize(initial=False) or solve(initial=False) on a table that has
\* the rows the rebuild gives leaves length and row order as they were and
\* gives every row the optimal value it held as its initial value.
C9_ContinuationCopiesOptimal ==
    [][(/\ last'.op \in TableCalls
        /\ ~last'.initial
        /\ last'.outcome = "ok"
        /\ parameters # None
        /\ Labels(parameters[1]) = Labels(BuildTable(last'.noise)))
       => /\ Len(parameters'[1]) = Len(parameters[1])
          /\ \A i \in DOMAIN parameters[1] :
               /\ parameters'[1][i].label = parameters[1][i].label
               /\ parameters'[1][i].initial = parameters[1][i].optimal]_vars

\* a continued solve with noise on two components: every initial value is the
\* optimal value the solve before it had written to that row
C9_Witness ==
    /\ last.op = "solve"
    /\ ~last.initial
    /\ last.noise
    /\ last.outcome = "ok"
    /\ Len(tseriesdict) = 2
    /\ RowsNamed(parameters[1], NoiseName) # {}
    /\ Labels(parameters[1]) = Labels(BuildTable(TRUE))
    /\ \A i \in DOMAIN parameters[1] : parameters[1][i].initial = Optimal(i)

\* the stored table is as a solve left it: every row holds the solver's optimum
WrittenBySolve ==
    /\ solved
    /\ parameters # None
    /\ \A i \in DOMAIN parameters[1] : parameters[1][i].optimal = Optimal(i)

\* C10: in a residuals or sse call on the optimal vector a solve has stored,
\* every entry handed to the noise model is a row of the noise model, and none
\* of them is also handed to a component.
C10_NoiseSliceIsNoiseRows ==
    (/\ last.op \in ResidualCalls
     /\ last.params = None
     /\ last.outcome = "ok"
     /\ WrittenBySolve
     /\ last.noiseSlice # None)
    => \A i \in Range(last.noiseSlice[1]) :
         /\ parameters[1][i].name = NoiseName
         /\ \A k \in DOMAIN last.slices : i \notin Range(last.slices[k])
====
